---- MODULE Spec2Model ----
(***************************************************************************)
(* Model of the data-cleaning and exploratory-analysis pipeline of         *)
(* src/app.py: clean_data, detect_outliers, generate_eda_report and the    *)
(* analyze() route that chains them, with the settings of src/config.py.   *)
(*                                                                         *)
(* Representation.  A DataFrame is a record                                *)
(*   [names, kinds, rows, index] : column labels, column dtypes ("num" for *)
(*   int64/float64, "cat" for object), the rows, and the row labels.       *)
(* A cell is <<>> when missing (NaN / None) and <<v>> otherwise.  A        *)
(* numeric cell holds its value in halves (the number x is <<2*x>>), so    *)
(* that the median of an even number of integers is exact; every           *)
(* comparison of detect_outliers is homogeneous in the unit.  A column     *)
(* label is the sequence of its characters.                                *)
(***************************************************************************)
EXTENDS Integers, Sequences, FiniteSets, TLC

VARIABLES df, cfg, regexDefault, pc, subject, method, cleaned, recleaned, outliers, report, flash

vars == <<df, cfg, regexDefault, pc, subject, method, cleaned, recleaned, outliers, report, flash>>

(* ------------------------------ bounds -------------------------------- *)
MaxRows == 3
MaxDetectRows == 5
MaxNameLen == 3

(* ------------------------- generic helpers ---------------------------- *)
Range(s) == {s[i] : i \in 1..Len(s)}

SeqsUpTo(S, n) == UNION {[1..k -> S] : k \in 0..n}

RECURSIVE SumSeq(_)
SumSeq(s) == IF s = <<>> THEN 0 ELSE Head(s) + SumSeq(Tail(s))

Num(x) == <<2 * x>>

NoDs == [names |-> <<>>, kinds |-> <<>>, rows |-> <<>>, index |-> <<>>]

NRows(d) == Len(d.rows)
NCols(d) == Len(d.names)

\* df[col] by position: the cells of column c, in row order
Column(d, c) == [i \in 1..NRows(d) |-> d.rows[i][c]]

\* Series.dropna(): the values of the non-missing cells, in row order
DropNa(col) ==
    LET kept == SelectSeq(col, LAMBDA x : x # <<>>)
    IN [i \in 1..Len(kept) |-> kept[i][1]]

\* df.isnull().sum() of one column
MissingCount(col) == Cardinality({i \in 1..Len(col) : col[i] = <<>>})

(* ---------------------- clean_data: column names ---------------------- *)
Whitespace == {" ", "\t"}
NonWordChars == {" ", "\t", "-"}

RECURSIVE LStrip(_)
LStrip(w) == IF w # <<>> /\ Head(w) \in Whitespace THEN LStrip(Tail(w)) ELSE w

RECURSIVE RStrip(_)
RStrip(w) ==
    IF w # <<>> /\ w[Len(w)] \in Whitespace THEN RStrip(SubSeq(w, 1, Len(w) - 1)) ELSE w

\* str.strip()
Strip(w) == RStrip(LStrip(w))

\* str.replace(' ', '_'): the one-character pattern is the space, literally
ReplaceSpaces(w) == [i \in 1..Len(w) |-> IF w[i] = " " THEN "_" ELSE w[i]]

\* str.replace('[^a-zA-Z0-9_]', ''): with regex=True (the default of pandas
\* before 2.0) every character outside the class is deleted; with regex=False
\* (the default from pandas 2.0 on) the pattern is a literal string, which no
\* label of the model contains, so nothing is deleted.
ReplaceSpecial(w, regex) ==
    IF regex THEN SelectSeq(w, LAMBDA ch : ch \notin NonWordChars) ELSE w

NormalizeName(w, regex) == ReplaceSpecial(ReplaceSpaces(Strip(w)), regex)

(* ---------------------- clean_data: duplicates ------------------------ *)
\* DataFrame.drop_duplicates(): keep the first occurrence of every row, in
\* order, with its row label (NaN equals NaN here)
DropDuplicates(d) ==
    LET keep == {i \in 1..NRows(d) : \A j \in 1..(i - 1) : d.rows[j] # d.rows[i]}
        pos == [k \in 1..Cardinality(keep) |->
                  CHOOSE i \in keep : Cardinality({j \in keep : j < i}) = k - 1]
    IN [d EXCEPT !.rows = [k \in 1..Len(pos) |-> d.rows[pos[k]]],
                 !.index = [k \in 1..Len(pos) |-> d.index[pos[k]]]]

(* ---------------------- clean_data: imputation ------------------------ *)
\* Series.median(): skips NaN; NaN (here <<>>) when nothing is left.  The
\* division is exact whenever a cell is filled: cells are missing only in
\* input data, whose values are even.
Median(col) ==
    LET s == SortSeq(DropNa(col), LAMBDA a, b : a < b)
        n == Len(s)
    IN IF n = 0 THEN <<>>
       ELSE IF n % 2 = 1 THEN <<s[(n + 1) \div 2]>>
       ELSE <<(s[n \div 2] + s[n \div 2 + 1]) \div 2>>

\* the order of str values that Series.mode() sorts by
CatOrder == <<"A", "B", "Unknown">>
CatRank(v) == CHOOSE i \in 1..Len(CatOrder) : CatOrder[i] = v

CountOf(vals, v) == Cardinality({i \in 1..Len(vals) : vals[i] = v})

\* Series.mode(): the most frequent non-missing values, sorted
Mode(col) ==
    LET vals == DropNa(col)
        best == {v \in Range(vals) : \A w \in Range(vals) : CountOf(vals, v) >= CountOf(vals, w)}
        asSeq == [k \in 1..Cardinality(best) |->
                    CHOOSE v \in best : Cardinality({w \in best : CatRank(w) < CatRank(v)}) = k - 1]
    IN asSeq

\* Series.fillna(value); fillna(NaN) fills nothing
FillNa(col, cell) == [i \in 1..Len(col) |-> IF col[i] = <<>> THEN cell ELSE col[i]]

ImputeNumeric(col) == FillNa(col, Median(col))

\* variant: the mode is used only when several values tie for it
ImputeCategoricalTieOnly(col) ==
    LET mode_val == Mode(col)
    IN IF Len(mode_val) > 1 THEN FillNa(col, <<mode_val[1]>>)
       ELSE FillNa(col, <<"Unknown">>)

ImputeCategorical(col) ==
    LET mode_val == Mode(col)
    IN IF Len(mode_val) > 0 THEN FillNa(col, <<mode_val[1]>>)
       ELSE FillNa(col, <<"Unknown">>)

ImputeColumn(kind, col) ==
    IF kind = "num" THEN ImputeNumeric(col) ELSE ImputeCategorical(col)

Impute(d) ==
    [d EXCEPT !.rows = [i \in 1..NRows(d) |->
                          [c \in 1..NCols(d) |-> ImputeColumn(d.kinds[c], Column(d, c))[i]]]]

(* ----------------------------- clean_data ----------------------------- *)
Ok(d) == [status |-> "ok", kind |-> "", ds |-> d]
Raised(k) == [status |-> "error", kind |-> k, ds |-> NoDs]
NotRun == [status |-> "none", kind |-> "", ds |-> NoDs]

HasDuplicateNames(d) ==
    \E i, j \in 1..NCols(d) : i # j /\ d.names[i] = d.names[j]

\* With two equal labels df_clean[col] is a DataFrame, which has no .dtype:
\* the loop over the columns raises AttributeError and nothing is returned.
clean_data(d, regex) ==
    LET renamed == [d EXCEPT !.names = [c \in 1..NCols(d) |-> NormalizeName(d.names[c], regex)]]
        deduped == DropDuplicates(renamed)
    IN IF HasDuplicateNames(renamed) THEN Raised("AttributeError")
       ELSE Ok(Impute(deduped))

(* --------------------------- detect_outliers -------------------------- *)
\* Series.quantile(q) for q = num/4, linear interpolation over the sorted
\* non-missing values, times 4 (so the result stays an integer).  NaN when
\* no value is left: the caller tests for that.
Quantile4(vals, num) ==
    LET s == SortSeq(vals, LAMBDA a, b : a < b)
        p == (Len(s) - 1) * num
        lo == p \div 4 + 1
        r == p % 4
    IN IF r = 0 THEN 4 * s[lo] ELSE 4 * s[lo] + r * (s[lo + 1] - s[lo])

\* the multiplier 1.5 of lines 69-70, in halves, and the cut-off 3 of line 74
IQR_MULTIPLIER_X2 == 3
Z_CUTOFF == 3

\* lines 66-71: a comparison with NaN (a missing cell, or the bounds of a
\* column without values) is False.  With x, Q1, Q3 in the same unit,
\*   x < Q1 - (k2/2)*IQR   iff   8x < 2*(4 Q1) - k2*(4 Q3 - 4 Q1).
\* variant: values on the bounds are flagged too
IqrFlagInclusive(x, vals, k2) ==
    LET Q1 == Quantile4(vals, 1)
        Q3 == Quantile4(vals, 3)
        IQR == Q3 - Q1
    IN \/ 8 * x <= 2 * Q1 - k2 * IQR
       \/ 8 * x >= 2 * Q3 + k2 * IQR

IqrFlag(x, vals, k2) ==
    LET Q1 == Quantile4(vals, 1)
        Q3 == Quantile4(vals, 3)
        IQR == Q3 - Q1
    IN \/ 8 * x < 2 * Q1 - k2 * IQR
       \/ 8 * x > 2 * Q3 + k2 * IQR

IqrOutliers(d, c) ==
    LET col == Column(d, c)
        vals == DropNa(col)
        hit == {i \in 1..Len(col) : col[i] # <<>> /\ vals # <<>> /\ IqrFlag(col[i][1], vals, IQR_MULTIPLIER_X2)}
    IN [k \in 1..Cardinality(hit) |->
          LET i == CHOOSE i \in hit : Cardinality({j \in hit : j < i}) = k - 1
          IN <<d.index[i], col[i]>>]

\* np.abs(stats.zscore(x)) > t with the population standard deviation:
\*   |x - S/n| > t * sqrt(SS/n - (S/n)^2)  iff  (n x - S)^2 > t^2 (n SS - S^2);
\* a constant column gives 0/0 = NaN, which is not > t.
ZFlag(x, vals, t) ==
    LET n == Len(vals)
        S == SumSeq(vals)
        SS == SumSeq([i \in 1..n |-> vals[i] * vals[i]])
    IN (n * x - S) * (n * x - S) > t * t * (n * SS - S * S)

\* lines 73-74: z_scores has one entry per non-missing value; it indexes the
\* whole column as a boolean mask, which raises when the lengths differ.
ZMaskFits(d, c) == Len(DropNa(Column(d, c))) = NRows(d)

\* variant: the cut-off is 2 standard deviations
ZOutliersCutoff2(d, c) ==
    LET col == Column(d, c)
        vals == DropNa(col)
        hit == {i \in 1..Len(col) : ZFlag(col[i][1], vals, 2)}
    IN [k \in 1..Cardinality(hit) |->
          LET i == CHOOSE i \in hit : Cardinality({j \in hit : j < i}) = k - 1
          IN <<d.index[i], col[i]>>]

ZOutliers(d, c) ==
    LET col == Column(d, c)
        vals == DropNa(col)
        hit == {i \in 1..Len(col) : ZFlag(col[i][1], vals, Z_CUTOFF)}
    IN [k \in 1..Cardinality(hit) |->
          LET i == CHOOSE i \in hit : Cardinality({j \in hit : j < i}) = k - 1
          IN <<d.index[i], col[i]>>]

\* df.select_dtypes(include=[np.number]).columns, as column positions
NumericCols(d) == SelectSeq([c \in 1..NCols(d) |-> c], LAMBDA c : d.kinds[c] = "num")

OutliersOk(m) == [status |-> "ok", kind |-> "", map |-> m]
OutliersRaised(k) == [status |-> "error", kind |-> k, map |-> <<>>]
OutliersNotRun == [status |-> "none", kind |-> "", map |-> <<>>]

\* the dict of line 61, in insertion order: one entry per numeric column; a
\* method that is neither 'iqr' nor 'zscore' adds nothing
detect_outliers(d, m) ==
    LET cols == NumericCols(d)
    IN IF m = "iqr"
       THEN OutliersOk([k \in 1..Len(cols) |->
                          [col |-> d.names[cols[k]], items |-> IqrOutliers(d, cols[k])]])
       ELSE IF m = "zscore"
       THEN IF \A k \in 1..Len(cols) : ZMaskFits(d, cols[k])
            THEN OutliersOk([k \in 1..Len(cols) |->
                               [col |-> d.names[cols[k]], items |-> ZOutliers(d, cols[k])]])
            ELSE OutliersRaised("IndexError")
       ELSE OutliersOk(<<>>)

(* ------------------------- generate_eda_report ------------------------ *)
ReportNotRun ==
    [status |-> "none", kind |-> "", shape |-> <<0, 0>>, columns |-> <<>>, dtypes |-> <<>>,
     missing_values |-> <<>>, outlier_summary |-> <<>>]

ReportRaised(k) == [ReportNotRun EXCEPT !.status = "error", !.kind = k]

\* lines 78-112.  The percentage (len(outlier_data) / len(df)) * 100 is kept as
\* the fraction pct_num / pct_den; len(df) = 0 makes the division raise
\* ZeroDivisionError at the first entry of the map, and nothing catches it.
\* descriptive_stats and correlation are floating-point tables that no
\* property here reads; they raise nothing on the datasets of the model.
generate_eda_report(d, outl) ==
    IF Len(outl.map) > 0 /\ NRows(d) = 0 THEN ReportRaised("ZeroDivisionError")
    ELSE [status |-> "ok", kind |-> "",
          shape |-> <<NRows(d), NCols(d)>>,
          columns |-> d.names,
          dtypes |-> d.kinds,
          missing_values |-> [c \in 1..NCols(d) |-> MissingCount(Column(d, c))],
          outlier_summary |-> [k \in 1..Len(outl.map) |->
                                 [col |-> outl.map[k].col,
                                  count |-> Len(outl.map[k].items),
                                  pct_num |-> Len(outl.map[k].items) * 100,
                                  pct_den |-> NRows(d)]]]

(* ------------------------------- Config ------------------------------- *)
\* src/config.py, Data Processing Configuration: the method, the Z-score
\* threshold and the IQR multiplier (in halves: 3 is 1.5), read from the
\* environment with these defaults
DefaultConfig ==
    [OUTLIER_DETECTION_METHOD |-> "iqr", Z_SCORE_THRESHOLD |-> 3, IQR_MULTIPLIER |-> 3]

Methods == {"iqr", "zscore"}

Configs ==
    [OUTLIER_DETECTION_METHOD : Methods, Z_SCORE_THRESHOLD : {2, 3}, IQR_MULTIPLIER : {2, 3, 60}]

(* ------------------------------- inputs ------------------------------- *)
\* a fresh DataFrame has the RangeIndex 0..n-1
Frame(names, kinds, rows) ==
    [names |-> names, kinds |-> kinds, rows |-> rows, index |-> [i \in 1..Len(rows) |-> i - 1]]

\* a numeric and a str column, as in test_data_cleaning, with every mix of
\* missing cells and repeated rows
NumCells == {<<>>, Num(1), Num(2)}
CatCells == {<<>>, <<"A">>, <<"B">>}

MixedFrames ==
    {Frame(<< <<"A", "g", "e">>, <<"N", "a", "m", "e">> >>, <<"num", "cat">>, rows) :
        rows \in SeqsUpTo(NumCells \X CatCells, MaxRows)}

\* one numeric column, long enough for the quartiles to single a value out
DetectCells == {<<>>, Num(0), Num(1), Num(9)}

NumericFrames ==
    {Frame(<< <<"x">> >>, <<"num">>, [i \in 1..Len(col) |-> <<col[i]>>]) :
        col \in SeqsUpTo(DetectCells, MaxDetectRows)}

\* column labels over an alphabet with a space, a tab and a special character
Alphabet == {"a", "b", "_", " ", "\t", "-"}
Labels == SeqsUpTo(Alphabet, MaxNameLen) \ {<<>>}

LabelFrames ==
    {Frame(<<w[1], w[2]>>, <<"num", "cat">>,
           << <<Num(1), <<"A">>>>, <<<<>>, <<>>>> >>) :
        w \in {v \in Labels \X {<<"a">>, <<"a", "_", "b">>} : v[1] # v[2]}}

\* the frame of test_outlier_detection
Normal_Values == <<1, 2, 3, 4, 5, 6, 7, 8, 9, 10>>
With_Outliers == <<1, 2, 3, 4, 5, 6, 7, 8, 9, 100>>

TestOutlierFrame ==
    Frame(<< <<"N", "o", "r", "m", "a", "l", "_", "V", "a", "l", "u", "e", "s">>,
             <<"W", "i", "t", "h", "_", "O", "u", "t", "l", "i", "e", "r", "s">> >>,
          <<"num", "num">>,
          [i \in 1..Len(Normal_Values) |-> <<Num(Normal_Values[i]), Num(With_Outliers[i])>>])

\* eleven rows: the shortest column in which a z-score can exceed 3
ElevenFrame ==
    Frame(<< <<"x">> >>, <<"num">>,
          [i \in 1..11 |-> IF i <= 10 THEN <<Num(i)>> ELSE <<Num(100)>>])

ConfigFrames ==
    {TestOutlierFrame, ElevenFrame,
     Frame(<< <<"x">> >>, <<"num">>, << <<Num(0)>>, <<Num(0)>>, <<Num(0)>>, <<Num(1)>> >>)}

(* ---------------------------- state machine --------------------------- *)
InitWith(frames, configs) ==
    /\ df \in frames
    /\ cfg \in configs
    /\ regexDefault \in BOOLEAN
    /\ pc = "start"
    /\ subject = NoDs
    /\ method = ""
    /\ cleaned = NotRun
    /\ recleaned = NotRun
    /\ outliers = OutliersNotRun
    /\ report = ReportNotRun
    /\ flash = ""

Init ==
    \/ InitWith(MixedFrames, {DefaultConfig})
    \/ InitWith(NumericFrames, {DefaultConfig})
    \/ InitWith(LabelFrames, {DefaultConfig})
    \/ InitWith(ConfigFrames, Configs)

\* df_clean = clean_data(df)
CleanData ==
    /\ pc = "start"
    /\ cleaned' = clean_data(df, regexDefault)
    /\ pc' = "cleaned"
    /\ UNCHANGED <<df, cfg, regexDefault, subject, method, recleaned, outliers, report, flash>>

\* clean_data applied to its own result
CleanAgain ==
    /\ pc = "cleaned"
    /\ cleaned.status = "ok"
    /\ recleaned' = clean_data(cleaned.ds, regexDefault)
    /\ pc' = "recleaned"
    /\ UNCHANGED <<df, cfg, regexDefault, subject, method, cleaned, outliers, report, flash>>

\* detect_outliers(df, method=...) on the raw frame (test_app.py) or on the
\* cleaned one (demo.py)
DetectOutliers(m) ==
    /\ \/ pc = "start" /\ subject' = df
       \/ pc = "cleaned" /\ cleaned.status = "ok" /\ subject' = cleaned.ds
    /\ method' = m
    /\ outliers' = detect_outliers(subject', m)
    /\ pc' = "detected"
    /\ UNCHANGED <<df, cfg, regexDefault, cleaned, recleaned, report, flash>>

\* report = generate_eda_report(df, outliers)
GenerateReport ==
    /\ pc = "detected"
    /\ outliers.status = "ok"
    /\ report' = generate_eda_report(subject, outliers)
    /\ pc' = "reported"
    /\ UNCHANGED <<df, cfg, regexDefault, subject, method, cleaned, recleaned, outliers, flash>>

\* the /analyze route from the parsed CSV on (lines 237-275): an empty frame
\* is refused; any exception of the pipeline is flashed; detect_outliers is
\* called without a method.  Plots, insights and the download file read the
\* results and change none of them.
Analyze ==
    /\ pc = "start"
    /\ LET df_clean == clean_data(df, regexDefault)
           found == detect_outliers(df_clean.ds, "iqr")
           rep == generate_eda_report(df_clean.ds, found)
       IN IF NRows(df) = 0 \/ NCols(df) = 0
          THEN /\ flash' = "The uploaded file is empty."
               /\ pc' = "flashed"
               /\ UNCHANGED <<subject, method, cleaned, outliers, report>>
          ELSE IF df_clean.status = "error"
          THEN /\ flash' = "An error occurred during analysis"
               /\ pc' = "flashed"
               /\ cleaned' = df_clean
               /\ UNCHANGED <<subject, method, outliers, report>>
          ELSE /\ cleaned' = df_clean
               /\ subject' = df_clean.ds
               /\ method' = "iqr"
               /\ outliers' = found
               /\ report' = rep
               /\ flash' = ""
               /\ pc' = IF rep.status = "ok" THEN "analyzed" ELSE "flashed"
    /\ UNCHANGED <<df, cfg, regexDefault, recleaned>>

Next ==
    \/ CleanData
    \/ CleanAgain
    \/ \E m \in Methods : DetectOutliers(m)
    \/ GenerateReport
    \/ Analyze

Spec == Init /\ [][Next]_vars

(* ============================ properties ============================== *)
SameTable(d1, d2) == d1.names = d2.names /\ d1.rows = d2.rows

HasDuplicateRows(d) == \E i, j \in 1..NRows(d) : i # j /\ d.rows[i] = d.rows[j]

\* C1: clean_data(clean_data(D)) equals clean_data(D): same column names,
\* same rows in the same order, same values.
C1_CleanIdempotent ==
    pc = "recleaned" => recleaned.status = "ok" /\ SameTable(recleaned.ds, cleaned.ds)

\* C2: the dataset returned by clean_data contains no two rows that are
\* equal in every column.
C2_NoDuplicateRows ==
    cleaned.status = "ok" => ~HasDuplicateRows(cleaned.ds)

\* the cells that column c of the input holds in the rows clean_data kept
SurvivorColumn(c) ==
    [k \in 1..NRows(cleaned.ds) |-> df.rows[cleaned.ds.index[k] + 1][c]]

EntirelyMissing(d, c) == \A i \in 1..NRows(d) : d.rows[i][c] = <<>>

MostFrequent(v, vals) ==
    /\ v \in Range(vals)
    /\ \A w \in Range(vals) : CountOf(vals, v) >= CountOf(vals, w)

EntryOf(c) ==
    outliers.map[CHOOSE k \in 1..Len(outliers.map) : NumericCols(subject)[k] = c]

Detected(m) == pc = "detected" /\ method = m

\* C4 as stated: the Z-score method with threshold 3.0 applied to
\* [1,2,3,4,5,6,7,8,9,100] flags the value 100.
C4_ZScoreFlags100 ==
    (Detected("zscore") /\ subject = TestOutlierFrame) =>
        /\ outliers.status = "ok"
        /\ \E k \in 1..Len(EntryOf(2).items) : EntryOf(2).items[k] = <<9, Num(100)>>

\* C4 as the code has it: the Z-score method with threshold 3.0 applied to
\* [1,2,3,4,5,6,7,8,9,100] flags no value (the score of 100 is about 2.989).
C4_ZScoreFlagsNothing ==
    (Detected("zscore") /\ subject = TestOutlierFrame) =>
        /\ outliers.status = "ok"
        /\ Len(outliers.map) = 2
        /\ \A k \in 1..Len(outliers.map) : outliers.map[k].items = <<>>

C4_Witness ==
    Detected("zscore") /\ subject = TestOutlierFrame /\ outliers.status = "ok"

\* the quantile q = num/4 as the weighted mean of the two neighbouring order
\* statistics, times 4
WeightedQuantile4(vals, num) ==
    LET s == SortSeq(vals, LAMBDA a, b : a < b)
        h == (Len(s) - 1) * num
        below == h \div 4 + 1
        w == h % 4
        above == IF w = 0 THEN below ELSE below + 1
    IN (4 - w) * s[below] + w * s[above]

\* x lies strictly outside [Q1 - (k2/2) IQR, Q3 + (k2/2) IQR], all times 8
StrictlyOutside(x, vals, k2) ==
    LET q1 == WeightedQuantile4(vals, 1)
        q3 == WeightedQuantile4(vals, 3)
    IN 8 * x < 2 * q1 - k2 * (q3 - q1) \/ 8 * x > 2 * q3 + k2 * (q3 - q1)

RowOfLabel(d, label) == CHOOSE i \in 1..NRows(d) : d.index[i] = label

\* items lists exactly the rows of `rows`, each once, in row order, as
\* (row label, value) pairs of column c of d
ListsRows(items, d, c, rows) ==
    /\ Len(items) = Cardinality(rows)
    /\ {items[k] : k \in 1..Len(items)} = {<<d.index[i], d.rows[i][c]>> : i \in rows}
    /\ \A k, l \in 1..Len(items) :
          k < l => RowOfLabel(d, items[k][1]) < RowOfLabel(d, items[l][1])

OutsideRows(d, c, k2) ==
    {i \in 1..NRows(d) :
        d.rows[i][c] # <<>> /\ StrictlyOutside(d.rows[i][c][1], DropNa(Column(d, c)), k2)}

\* C5: the IQR method flags, for each numeric column, exactly the entries
\* strictly below Q1 - 1.5*IQR or strictly above Q3 + 1.5*IQR, in row order
\* with their row index; [1..10] yields no outlier and in
\* [1,2,3,4,5,6,7,8,9,100] exactly the value 100 (row 9) is flagged.
C5_IqrFlagsExactlyOutside ==
    Detected("iqr") =>
        /\ outliers.status = "ok"
        /\ Len(outliers.map) = Len(NumericCols(subject))
        /\ \A k \in 1..Len(outliers.map) :
              LET c == NumericCols(subject)[k]
              IN /\ outliers.map[k].col = subject.names[c]
                 /\ ListsRows(outliers.map[k].items, subject, c, OutsideRows(subject, c, 3))
        /\ subject = TestOutlierFrame =>
              /\ outliers.map[1].items = <<>>
              /\ outliers.map[2].items = << <<9, Num(100)>> >>

C5_Witness ==
    /\ Detected("iqr")
    /\ subject = TestOutlierFrame
    /\ Len(outliers.map[2].items) = 1

FewValues(d, c) == Len(DropNa(Column(d, c))) < 2

\* C6: under either method a numeric column with fewer than 2 non-missing
\* values yields an empty outlier sequence, and detect_outliers returns
\* normally with an entry for every numeric column.
C6_FewValuesNoOutliers ==
    (pc = "detected" /\ \E k \in 1..Len(NumericCols(subject)) : FewValues(subject, NumericCols(subject)[k])) =>
        /\ outliers.status = "ok"
        /\ Len(outliers.map) = Len(NumericCols(subject))
        /\ \A k \in 1..Len(outliers.map) :
              FewValues(subject, NumericCols(subject)[k]) => outliers.map[k].items = <<>>

(* --------------------------- name properties -------------------------- *)
\* the canonical form of the specification: trim, every interior whitespace
\* character to an underscore, every other character outside [A-Za-z0-9_]
\* removed
Canonical(w) ==
    LET t == Strip(w)
        u == [i \in 1..Len(t) |-> IF t[i] \in Whitespace THEN "_" ELSE t[i]]
    IN SelectSeq(u, LAMBDA ch : ch \notin NonWordChars)

Collides(d) ==
    \E i, j \in 1..NCols(d) :
        i # j /\ d.names[i] # d.names[j]
              /\ NormalizeName(d.names[i], regexDefault) = NormalizeName(d.names[j], regexDefault)

PairwiseDistinct(names) == \A i, j \in 1..Len(names) : i # j => names[i] # names[j]

\* C7: when two distinct column names normalize to the same string,
\* clean_data fails with a SchemaError and returns no dataset; whenever it
\* returns a dataset, the column names are pairwise distinct.
C7_CollisionIsSchemaError ==
    pc = "cleaned" =>
        /\ Collides(df) => cleaned.status = "error" /\ cleaned.kind = "SchemaError"
        /\ cleaned.status = "ok" => PairwiseDistinct(cleaned.ds.names)

\* C8: every returned column name is the input name trimmed, with every
\* interior whitespace character replaced by an underscore and every
\* character outside [A-Za-z0-9_] removed, so it has only such characters;
\* the columns keep their position and type.
C8_NamesCanonical ==
    (pc = "cleaned" /\ cleaned.status = "ok") =>
        /\ NCols(cleaned.ds) = NCols(df)
        /\ cleaned.ds.kinds = df.kinds
        /\ \A c \in 1..NCols(df) :
              /\ cleaned.ds.names[c] = Canonical(df.names[c])
              /\ \A i \in 1..Len(cleaned.ds.names[c]) : cleaned.ds.names[c][i] \notin NonWordChars

(* -------------------------- report properties ------------------------- *)
\* C9: generate_eda_report on a dataset with zero rows and an outlier map
\* with at least one column ends in an UndefinedStatisticError.
C9_ZeroRowsUndefinedStatistic ==
    (pc = "reported" /\ NRows(subject) = 0 /\ Len(outliers.map) > 0) =>
        report.status = "error" /\ report.kind = "UndefinedStatisticError"

(* -------------------------- config properties ------------------------- *)
\* what the configured method flags in column c of d: under iqr the rows
\* strictly outside the bounds of the configured multiplier, under zscore
\* the rows whose absolute score exceeds the configured threshold
ConfiguredRows(d, c) ==
    IF cfg.OUTLIER_DETECTION_METHOD = "iqr"
    THEN OutsideRows(d, c, cfg.IQR_MULTIPLIER)
    ELSE {i \in 1..NRows(d) :
            d.rows[i][c] # <<>> /\ ZFlag(d.rows[i][c][1], DropNa(Column(d, c)), cfg.Z_SCORE_THRESHOLD)}

\* C10: the analysis applies the configured method, IQR multiplier and
\* Z-score threshold.
C10_ConfigurationApplied ==
    pc = "analyzed" =>
        \A k \in 1..Len(outliers.map) :
            ListsRows(outliers.map[k].items, subject, NumericCols(subject)[k],
                      ConfiguredRows(subject, NumericCols(subject)[k]))

(* ------------------------ stage-order properties ---------------------- *)
\* C11: clean_data normalizes, imputes, then deduplicates: each missing entry
\* of a numeric column is filled with the median of the non-missing values of
\* that column of the input, before any duplicate row is removed (duplicate
\* rows contribute to the median).
C11_MedianBeforeDedup ==
    cleaned.status = "ok" =>
        \A c \in 1..NCols(df) :
            df.kinds[c] = "num" =>
                \A k \in 1..NRows(cleaned.ds) :
                    SurvivorColumn(c)[k] = <<>> =>
                        cleaned.ds.rows[k][c] = Median(Column(df, c))

====
